---- MODULE Spec2Model ----
(***************************************************************************)
(* Model of the abpcrawler concurrency engine (lib/crawler.js, both the    *)
(* PageInfoListener-based and the LoadListener-based variant):             *)
(*   - TabAllocator   (constructor, _createTab, getTab, releaseTab)        *)
(*   - PageInfoListener (expect, setPageInfo, the timeout timer)           *)
(*   - run, crawl_urls, crawl_url (the gate, the batch counter, one job)   *)
(* JavaScript runs every handler to completion, so each action below is    *)
(* one whole handler: a getTab call, a releaseTab call, the run of a       *)
(* promise reaction, the firing of a timer.                                *)
(*                                                                         *)
(* A promise for a tab is identified with the tab it resolves to.  The     *)
(* reaction attached with .then() to a _createTab() promise is kept in     *)
(* onReady; TabReady(t) is the moment the creation promise of t resolves   *)
(* and its reaction runs.                                                  *)
(***************************************************************************)
EXTENDS Integers, Sequences, FiniteSets, TLC

\* ---------------------------------------------------------------- bounds
NumJobs == 3          \* number of callers (crawl_url tasks), one getTab each
MaxCapacity == 2      \* maxtabs ranges over 1..MaxCapacity

NumKeys == 2          \* number of distinct outerWindowIDs
MaxRegs == 3          \* number of expect() calls
MaxSignals == 3       \* number of setPageInfo() calls
MaxFaults == 1        \* number of throws of external calls in one batch

Jobs == 1..NumJobs
Keys == 1..NumKeys
RegIds == 1..MaxRegs
\* msg.data.pageInfo as sent by the process script
Payloads == {"pageInfoA", "pageInfoB"}
\* the sentinel {error: "timeout"}
TimeoutResult == "timeout"
\* Map.get() of a key that is not in the map
NoReg == 0

\* browser.tabs[0], the tab the browser window starts with
InitialTab == 0
\* `delete this._tab`: the property is absent
NoTab == -1

\* Every job creates at most two tabs (one when it is served, one as the
\* replacement of the last tab), the constructor creates one.
MaxTabId == 2 * NumJobs + 2
TabIds == 1..MaxTabId

\* reactions attached to a _createTab() promise
NoReaction == [kind |-> "none", arg |-> NoTab]
RemoveInitialReaction(t) == [kind |-> "removeInitial", arg |-> t]
ReleaseReaction(t) == [kind |-> "releaseTab", arg |-> t]
KeepOnlyReaction(t) == [kind |-> "removeAllTabsBut", arg |-> t]
ReleaseLLReaction(t) == [kind |-> "releaseTabLL", arg |-> t]

\* the action library: Action.Defer and Action.Delay objects
NumActions == 2
MaxGoCalls == 2
Actions == 1..NumActions
\* Action.State
State == [Init |-> 0, Ready |-> 1, Running |-> 2, Done |-> 3, Exception |-> 4]
\* a function argument: undefined, a function that returns, one that throws
NoFn == "undefined"
Fns == {NoFn, "returns", "throws"}

VARIABLES
  _tabs,        \* this._tabs
  _maxtabs,     \* this._maxtabs
  _resolvers,   \* this._resolvers: queue of resolve functions, one per job
  _tab,         \* this._tab: the keep-alive tab promise, or NoTab
  _tabInUse,    \* this._tabInUse (LoadListener variant only)
  browserTabs,  \* this._browser.tabs: the tabs open in the browser
  nextTab,      \* identity of the tab the next addTab() returns
  onReady,      \* reaction chained to the creation promise of each tab
  tabReady,     \* tabs whose creation promise has resolved (reaction run)
  pc,           \* per job: "idle", "waiting", "deferred", "holding", "done"
  jobTab,       \* per job: the tab its getTab() promise is bound to
  how,          \* per job: which getTab branch or releaseTab hand-off bound it
  deferredOn,   \* per job: the _tab promise its `_tab.then(() => getTab())` waits on
  requests,     \* history: jobs in the order of their getTab() calls
  everQueued,   \* history: jobs whose resolver was pushed onto _resolvers
  _pageInfoSetters, \* PageInfoListener._pageInfoSetters: key -> registration
  timers,       \* registrations whose setTimeout timer is armed
  future,       \* per registration: the promise expect() returned
  resolveCount, \* per registration: how often its resolve() was called
  regKey,       \* per registration: the outerWindowID it was made for
  nextReg,      \* identity of the registration the next expect() makes
  lastCall,     \* history: the last PageInfoListener call or timer firing
  callNo,       \* history: number of PageInfoListener calls and timer firings
  signals,      \* history: number of setPageInfo() calls
  phase,        \* run(): "notRun", "gated", "open" (gate promise resolved),
                \* "crawling" (crawl_urls has run)
  listening,    \* onFiltersLoaded is registered with FilterNotifier
  gateBy,       \* history: what satisfied the gate: "none", "subscriptions"
                \* (present when run() was called) or "load" (action received)
  crawlCalls,   \* history: number of crawl_urls() calls
  numUrls,      \* urls.length; the jobs of the batch are 1..numUrls
  running,      \* crawl_urls: let running
  onDoneCalls,  \* history: number of onDone() calls
  jobReg,       \* per job: the registration its expect() call made
  trace,        \* history, per job: the steps of crawl_url it has executed
  post,         \* per job: its XMLHttpRequest: "none", "sent", "finished"
  record,       \* per job: the record passed to request.send()
  sends,        \* history, per job: number of request.send() calls
  taskDones,    \* history, per job: number of taskDone() calls of its request
  postLoaded,   \* history: some request has fired "load" (not "error")
  faults,       \* history: number of throws of RequestNotifier(), loadURI()
                \* and shutdown() so far
  _state,       \* per action: this._state
  try_f,        \* per action: this.try_f, the trial
  finally_f,    \* per action: this.finally_f
  catch_f,      \* per action: this.catch_f
  dispatched,   \* per action: _body callbacks handed to Async_Platform.dispatch
  delayed,      \* per action: _body callbacks handed to Async_Platform.set_timer
  calls,        \* history, per action: the calls of _go and of the user's
                \* functions, each with the _state it found
  escaped,      \* per action: an exception left the last go() or _body()
  goCalls,      \* history: number of go() calls
  lastGo        \* history: the action of the last go() call

taVars == <<_tabs, _maxtabs, _resolvers, _tab, _tabInUse, browserTabs, nextTab,
            onReady, tabReady, pc, jobTab, how, deferredOn, requests,
            everQueued>>

regVars == <<_pageInfoSetters, timers, future, resolveCount, regKey, nextReg,
             lastCall, callNo, signals>>

crawlVars == <<phase, listening, gateBy, crawlCalls, numUrls, running,
               onDoneCalls, jobReg, trace, post, record, sends,
               taskDones, postLoaded, faults>>

actVars == <<_state, try_f, finally_f, catch_f, dispatched, delayed, calls,
             escaped, goCalls, lastGo>>

vars == <<taVars, regVars, crawlVars, actVars>>

\* ------------------------------------------------- the allocator as a value
\* The fields a TabAllocator method reads and writes, gathered so that the
\* methods can be composed (releaseTab calls _createTab, the reaction of a
\* replacement tab calls releaseTab).
TA == [tabs |-> _tabs, maxtabs |-> _maxtabs, resolvers |-> _resolvers,
       tab |-> _tab, tabInUse |-> _tabInUse, browser |-> browserTabs,
       next |-> nextTab, onReady |-> onReady, jobTab |-> jobTab, how |-> how,
       deferredOn |-> deferredOn]

SetTA(a) ==
  /\ _tabs' = a.tabs
  /\ _maxtabs' = a.maxtabs
  /\ _resolvers' = a.resolvers
  /\ _tab' = a.tab
  /\ _tabInUse' = a.tabInUse
  /\ browserTabs' = a.browser
  /\ nextTab' = a.next
  /\ onReady' = a.onReady
  /\ jobTab' = a.jobTab
  /\ how' = a.how
  /\ deferredOn' = a.deferredOn

\* the allocator fields as they are in the current state
IsTA(a) ==
  /\ _tabs = a.tabs
  /\ _maxtabs = a.maxtabs
  /\ _resolvers = a.resolvers
  /\ _tab = a.tab
  /\ _tabInUse = a.tabInUse
  /\ browserTabs = a.browser
  /\ nextTab = a.next
  /\ onReady = a.onReady
  /\ jobTab = a.jobTab
  /\ how = a.how
  /\ deferredOn = a.deferredOn

\* --------------------- PageInfoListener

NoCall == [op |-> "none", key |-> 0, value |-> "none", hit |-> FALSE,
           threw |-> FALSE]
Unused == [state |-> "unused", value |-> "none"]
Pending == [state |-> "pending", value |-> "none"]
Resolved(v) == [state |-> "resolved", value |-> v]

\* the fields of the PageInfoListener and of the promises and timers it made
REG == [setters |-> _pageInfoSetters, timers |-> timers, future |-> future,
        resolveCount |-> resolveCount, regKey |-> regKey, next |-> nextReg,
        threw |-> FALSE]

SetREG(g) ==
  /\ _pageInfoSetters' = g.setters
  /\ timers' = g.timers
  /\ future' = g.future
  /\ resolveCount' = g.resolveCount
  /\ regKey' = g.regKey
  /\ nextReg' = g.next

\* new PageInfoListener(timeout), for outerWindowIDs keys and at most
\* Cardinality(regs) expect() calls
NewPageInfoListener(keys, regs) ==
  [setters |-> [k \in keys |-> NoReg], timers |-> {},
   future |-> [r \in regs |-> Unused],
   resolveCount |-> [r \in regs |-> 0],
   regKey |-> [r \in regs |-> 0], next |-> 1, threw |-> FALSE]

PageInfoListener == NewPageInfoListener(Keys, RegIds)

IsREG(g) ==
  /\ _pageInfoSetters = g.setters
  /\ timers = g.timers
  /\ future = g.future
  /\ resolveCount = g.resolveCount
  /\ regKey = g.regKey
  /\ nextReg = g.next
  /\ lastCall = NoCall
  /\ callNo = 0
  /\ signals = 0

\* no record has been sent
NoRecord == [url |-> 0, kind |-> "none", error |-> "none"]

\* no action has been made yet
NoAct ==
  /\ _state = [a \in Actions |-> State.Init]
  /\ try_f = [a \in Actions |-> NoFn]
  /\ finally_f = [a \in Actions |-> NoFn]
  /\ catch_f = [a \in Actions |-> NoFn]
  /\ dispatched = [a \in Actions |-> 0]
  /\ delayed = [a \in Actions |-> 0]
  /\ calls = [a \in Actions |-> <<>>]
  /\ escaped = [a \in Actions |-> FALSE]
  /\ goCalls = 0
  /\ lastGo = 0

\* run() has not been called: no batch, no job, no request
NoCrawl ==
  /\ phase = "notRun"
  /\ listening = FALSE
  /\ gateBy = "none"
  /\ crawlCalls = 0
  /\ numUrls = 0
  /\ running = 0
  /\ onDoneCalls = 0
  /\ jobReg = [j \in Jobs |-> NoReg]
  /\ trace = [j \in Jobs |-> <<>>]
  /\ post = [j \in Jobs |-> "none"]
  /\ record = [j \in Jobs |-> NoRecord]
  /\ sends = [j \in Jobs |-> 0]
  /\ taskDones = [j \in Jobs |-> 0]
  /\ postLoaded = FALSE
  /\ faults = 0

\* onDone without `clearTimeout(timerID)`
onDone_noClearTimeout(g, r, v) ==
  [g EXCEPT !.setters[g.regKey[r]] = NoReg,
            !.future[r] = IF @.state = "pending" THEN Resolved(v) ELSE @,
            !.resolveCount[r] = @ + 1]

\* the closure onDone of registration r, called with pageInfo v: deletes the
\* map entry of r's key, clears r's timer, resolves r's promise (resolving a
\* settled promise changes nothing)
onDone(g, r, v) ==
  [g EXCEPT !.setters[g.regKey[r]] = NoReg,
            !.timers = @ \ {r},
            !.future[r] = IF @.state = "pending" THEN Resolved(v) ELSE @,
            !.resolveCount[r] = @ + 1]

\* expect() without `this._pageInfoSetters.set(outerWindowID, onDone)`
expect_noSet(g, k) ==
  [g EXCEPT !.regKey[g.next] = k,
            !.future[g.next] = Pending,
            !.timers = @ \cup {g.next},
            !.next = @ + 1]

\* expect(outerWindowID): a new promise, a new timer, the map entry is set
expect(g, k) ==
  [g EXCEPT !.regKey[g.next] = k,
            !.future[g.next] = Pending,
            !.timers = @ \cup {g.next},
            !.setters[k] = g.next,
            !.next = @ + 1]

\* setPageInfo() without the test `if (pageInfoSetter)`: calling undefined throws
setPageInfo_noCheck(g, k, v) ==
  IF g.setters[k] # NoReg
  THEN onDone(g, g.setters[k], v)
  ELSE [g EXCEPT !.threw = TRUE]

\* setPageInfo(outerWindowID, pageInfo)
setPageInfo(g, k, v) ==
  IF g.setters[k] # NoReg
  THEN onDone(g, g.setters[k], v)
  ELSE g

\* --------------------- PageInfoListener-based crawler: TabAllocator

\* _createTab(): this._tabs++, addTab("about:blank"); the returned promise is
\* for tab a.next and carries reaction r.
_createTab(a, r) ==
  [a EXCEPT !.tabs = @ + 1,
            !.browser = @ \cup {a.next},
            !.onReady[a.next] = r,
            !.next = @ + 1]

\* the fields at the start of the constructor: the window has its initial
\* tab, this._tabs = 0, this._resolvers = []
NoAllocator(maxtabs) ==
  [tabs |-> 0, maxtabs |-> maxtabs, resolvers |-> <<>>,
   tab |-> NoTab, tabInUse |-> FALSE, browser |-> {InitialTab},
   next |-> 1, onReady |-> [t \in TabIds |-> NoReaction],
   jobTab |-> [j \in Jobs |-> NoTab],
   how |-> [j \in Jobs |-> "none"],
   deferredOn |-> [j \in Jobs |-> NoTab]]

\* the state right after `new TabAllocator(browser, maxtabs)`
TabAllocator(maxtabs) ==
  LET a0 == NoAllocator(maxtabs)
  IN [_createTab(a0, RemoveInitialReaction(InitialTab)) EXCEPT !.tab = a0.next]

\* getTab() that hands out this._tab without `delete this._tab`
getTab_keepTab(a, j) ==
  IF a.tab # NoTab
  THEN [a EXCEPT !.jobTab[j] = a.tab, !.how[j] = "bootstrap"]
  ELSE IF a.tabs < a.maxtabs
  THEN [_createTab(a, NoReaction) EXCEPT !.jobTab[j] = a.next,
                                         !.how[j] = "created"]
  ELSE [a EXCEPT !.resolvers = Append(@, j)]

\* getTab() without the test `this._tabs < this._maxtabs`
getTab_noLimit(a, j) ==
  IF a.tab # NoTab
  THEN [a EXCEPT !.jobTab[j] = a.tab, !.tab = NoTab, !.how[j] = "bootstrap"]
  ELSE [_createTab(a, NoReaction) EXCEPT !.jobTab[j] = a.next,
                                         !.how[j] = "created"]

\* getTab() that tests `this._tabs < this._maxtabs` before `this._tab`
getTab_createFirst(a, j) ==
  IF a.tabs < a.maxtabs
  THEN [_createTab(a, NoReaction) EXCEPT !.jobTab[j] = a.next,
                                         !.how[j] = "created"]
  ELSE IF a.tab # NoTab
  THEN [a EXCEPT !.jobTab[j] = a.tab, !.tab = NoTab, !.how[j] = "bootstrap"]
  ELSE [a EXCEPT !.resolvers = Append(@, j)]

\* getTab() called by job j
getTab(a, j) ==
  IF a.tab # NoTab
  THEN [a EXCEPT !.jobTab[j] = a.tab, !.tab = NoTab, !.how[j] = "bootstrap"]
  ELSE IF a.tabs < a.maxtabs
  THEN [_createTab(a, NoReaction) EXCEPT !.jobTab[j] = a.next,
                                         !.how[j] = "created"]
  ELSE [a EXCEPT !.resolvers = Append(@, j)]

\* releaseTab() without the branch `if (this._tabs == 1)`
releaseTab_noKeepAlive(a, tab) ==
  LET b == [a EXCEPT !.browser = @ \ {tab}, !.tabs = @ - 1]
  IN IF Len(b.resolvers) > 0
     THEN IF b.tab # NoTab
          THEN [b EXCEPT !.jobTab[Head(b.resolvers)] = b.tab,
                         !.how[Head(b.resolvers)] = "handedBootstrap",
                         !.resolvers = Tail(@),
                         !.tab = NoTab]
          ELSE IF b.tabs < b.maxtabs
          THEN [_createTab(b, NoReaction)
                  EXCEPT !.jobTab[Head(b.resolvers)] = b.next,
                         !.how[Head(b.resolvers)] = "handedCreated",
                         !.resolvers = Tail(@)]
          ELSE b
     ELSE b

\* releaseTab() without the hand-off `if (this._resolvers.length)`
releaseTab_forgetWaiters(a, tab) ==
  IF a.tabs = 1
  THEN [_createTab(a, ReleaseReaction(tab)) EXCEPT !.tab = a.next]
  ELSE [a EXCEPT !.browser = @ \ {tab}, !.tabs = @ - 1]

\* releaseTab(tab)
releaseTab(a, tab) ==
  IF a.tabs = 1
  THEN [_createTab(a, ReleaseReaction(tab)) EXCEPT !.tab = a.next]
  ELSE LET b == [a EXCEPT !.browser = @ \ {tab}, !.tabs = @ - 1]
       IN IF Len(b.resolvers) > 0
          THEN IF b.tab # NoTab
               THEN [b EXCEPT !.jobTab[Head(b.resolvers)] = b.tab,
                              !.how[Head(b.resolvers)] = "handedBootstrap",
                              !.resolvers = Tail(@),
                              !.tab = NoTab]
               ELSE IF b.tabs < b.maxtabs
               THEN [_createTab(b, NoReaction)
                       EXCEPT !.jobTab[Head(b.resolvers)] = b.next,
                              !.how[Head(b.resolvers)] = "handedCreated",
                              !.resolvers = Tail(@)]
               ELSE b
          ELSE b

\* the reaction chained to a creation promise, run when the tab is ready
RunReaction(a, r) ==
  IF r.kind = "removeInitial" THEN [a EXCEPT !.browser = @ \ {r.arg}]
  ELSE IF r.kind = "releaseTab" THEN releaseTab(a, r.arg)
  ELSE a

\* ---------------------------------------------------------------- actions
Init ==
  /\ \E m \in 1..MaxCapacity : IsTA(TabAllocator(m))
  /\ tabReady = {}
  /\ pc = [j \in Jobs |-> "idle"]
  /\ requests = <<>>
  /\ everQueued = {}
  /\ IsREG(PageInfoListener)
  /\ NoCrawl
  /\ NoAct

\* a task calls tabAllocator.getTab() and suspends on the returned promise
GetTab(j) ==
  /\ pc[j] = "idle"
  /\ UNCHANGED actVars
  /\ SetTA(getTab(TA, j))
  /\ pc' = [pc EXCEPT ![j] = "waiting"]
  /\ requests' = Append(requests, j)
  /\ everQueued' = IF Len(getTab(TA, j).resolvers) > Len(_resolvers)
                   THEN everQueued \cup {j} ELSE everQueued
  /\ UNCHANGED tabReady
  /\ UNCHANGED <<regVars, crawlVars>>

\* Browser:Init (or Promise.resolve) resolves the creation promise of tab t;
\* the reaction chained to it runs
TabReady(t) ==
  /\ t \in browserTabs
  /\ t # InitialTab
  /\ t \notin tabReady
  /\ UNCHANGED actVars
  /\ tabReady' = tabReady \cup {t}
  /\ SetTA(RunReaction(TA, onReady[t]))
  /\ UNCHANGED <<pc, requests, everQueued>>
  /\ UNCHANGED <<regVars, crawlVars>>

\* the promise job j waits on resolves with its tab: the task resumes
Receive(j) ==
  /\ pc[j] = "waiting"
  /\ UNCHANGED actVars
  /\ jobTab[j] \in tabReady
  /\ pc' = [pc EXCEPT ![j] = "holding"]
  /\ UNCHANGED <<_tabs, _maxtabs, _resolvers, _tab, _tabInUse, browserTabs,
                 nextTab, onReady, tabReady, jobTab, how, deferredOn, requests,
                 everQueued>>
  /\ UNCHANGED <<regVars, crawlVars>>

\* the task calls tabAllocator.releaseTab(tab) with the tab it holds
ReleaseTab(j) ==
  /\ pc[j] = "holding"
  /\ UNCHANGED actVars
  /\ SetTA(releaseTab(TA, jobTab[j]))
  /\ pc' = [pc EXCEPT ![j] = "done"]
  /\ UNCHANGED <<tabReady, requests, everQueued>>
  /\ UNCHANGED <<regVars, crawlVars>>

Next ==
  \/ \E j \in Jobs : GetTab(j)
  \/ \E t \in TabIds : TabReady(t)
  \/ \E j \in Jobs : Receive(j)
  \/ \E j \in Jobs : ReleaseTab(j)

Spec == Init /\ [][Next]_vars

\* callers that hold a tab release it, creations become ready, resolved
\* promises resume their task; nobody is obliged to call getTab
FairSpec ==
  /\ Spec
  /\ \A t \in TabIds : WF_vars(TabReady(t))
  /\ \A j \in Jobs : WF_vars(Receive(j))
  /\ \A j \in Jobs : WF_vars(ReleaseTab(j))

\* --------------------- LoadListener-based crawler: TabAllocator

\* _createTab() of this variant: the statement is `this.tabs++`, which leaves
\* this._tabs as it is; addTab("about:blank") as before.
LL_createTab(a, r) ==
  [a EXCEPT !.browser = @ \cup {a.next},
            !.onReady[a.next] = r,
            !.next = @ + 1]

\* the state right after `new TabAllocator(browser, maxtabs)`
LL_TabAllocator(maxtabs) ==
  LET a0 == [tabs |-> 0, maxtabs |-> maxtabs, resolvers |-> <<>>,
             tab |-> NoTab, tabInUse |-> FALSE, browser |-> {InitialTab},
             next |-> 1, onReady |-> [t \in TabIds |-> NoReaction],
             jobTab |-> [j \in Jobs |-> NoTab],
             how |-> [j \in Jobs |-> "none"],
             deferredOn |-> [j \in Jobs |-> NoTab]]
  IN [LL_createTab(a0, KeepOnlyReaction(a0.next)) EXCEPT !.tab = a0.next]

\* getTab() called by job j
LL_getTab(a, j) ==
  IF a.tab # NoTab
  THEN IF ~a.tabInUse
       THEN [a EXCEPT !.tabInUse = TRUE, !.jobTab[j] = a.tab,
                      !.how[j] = "bootstrap"]
       ELSE [a EXCEPT !.deferredOn[j] = a.tab]
  ELSE IF a.tabs < a.maxtabs
  THEN [LL_createTab(a, NoReaction) EXCEPT !.jobTab[j] = a.next,
                                            !.how[j] = "created"]
  ELSE [a EXCEPT !.resolvers = Append(@, j)]

\* releaseTab(tab)
LL_releaseTab(a, tab) ==
  IF Len(a.resolvers) = 0 /\ a.tabs = 1
  THEN [LL_createTab(a, ReleaseLLReaction(tab)) EXCEPT !.tabInUse = FALSE,
                                                       !.tab = a.next]
  ELSE LET b == [a EXCEPT !.browser = @ \ {tab}]
       IN IF Len(b.resolvers) > 0
          THEN [LL_createTab(b, NoReaction)
                  EXCEPT !.jobTab[Head(b.resolvers)] = b.next,
                         !.how[Head(b.resolvers)] = "handedCreated",
                         !.resolvers = Tail(@)]
          ELSE [b EXCEPT !.tabs = @ - 1]

\* the reaction chained to a creation promise, run when the tab is ready
LL_RunReaction(a, r) ==
  IF r.kind = "removeAllTabsBut"
  THEN [a EXCEPT !.tab = NoTab, !.browser = {r.arg}]
  ELSE IF r.kind = "releaseTabLL"
  THEN LL_releaseTab([a EXCEPT !.tab = NoTab], r.arg)
  ELSE a

InitLL ==
  /\ \E m \in 1..MaxCapacity : IsTA(LL_TabAllocator(m))
  /\ tabReady = {}
  /\ pc = [j \in Jobs |-> "idle"]
  /\ requests = <<>>
  /\ everQueued = {}
  /\ IsREG(PageInfoListener)
  /\ NoCrawl
  /\ NoAct

\* a task calls tabAllocator.getTab() and suspends on the returned promise
LL_GetTab(j) ==
  /\ pc[j] = "idle"
  /\ UNCHANGED actVars
  /\ SetTA(LL_getTab(TA, j))
  /\ pc' = [pc EXCEPT ![j] = IF LL_getTab(TA, j).deferredOn[j] # NoTab
                             THEN "deferred" ELSE "waiting"]
  /\ requests' = Append(requests, j)
  /\ everQueued' = IF Len(LL_getTab(TA, j).resolvers) > Len(_resolvers)
                   THEN everQueued \cup {j} ELSE everQueued
  /\ UNCHANGED tabReady
  /\ UNCHANGED <<regVars, crawlVars>>

\* the reaction of `this._tab.then(() => this.getTab())`: the keep-alive
\* promise has resolved, getTab() is called again on behalf of job j
LL_Retry(j) ==
  /\ pc[j] = "deferred"
  /\ UNCHANGED actVars
  /\ deferredOn[j] \in tabReady
  /\ LET a == LL_getTab([TA EXCEPT !.deferredOn[j] = NoTab], j)
     IN /\ SetTA(a)
        /\ pc' = [pc EXCEPT ![j] = IF a.deferredOn[j] # NoTab
                                   THEN "deferred" ELSE "waiting"]
        /\ everQueued' = IF Len(a.resolvers) > Len(_resolvers)
                         THEN everQueued \cup {j} ELSE everQueued
  /\ UNCHANGED <<tabReady, requests>>
  /\ UNCHANGED <<regVars, crawlVars>>

LL_TabReady(t) ==
  /\ t \in browserTabs
  /\ t # InitialTab
  /\ t \notin tabReady
  /\ UNCHANGED actVars
  /\ tabReady' = tabReady \cup {t}
  /\ SetTA(LL_RunReaction(TA, onReady[t]))
  /\ UNCHANGED <<pc, requests, everQueued>>
  /\ UNCHANGED <<regVars, crawlVars>>

LL_ReleaseTab(j) ==
  /\ pc[j] = "holding"
  /\ UNCHANGED actVars
  /\ SetTA(LL_releaseTab(TA, jobTab[j]))
  /\ pc' = [pc EXCEPT ![j] = "done"]
  /\ UNCHANGED <<tabReady, requests, everQueued>>
  /\ UNCHANGED <<regVars, crawlVars>>

NextLL ==
  \/ \E j \in Jobs : LL_GetTab(j)
  \/ \E j \in Jobs : LL_Retry(j)
  \/ \E t \in TabIds : LL_TabReady(t)
  \/ \E j \in Jobs : Receive(j)
  \/ \E j \in Jobs : LL_ReleaseTab(j)

SpecLL == InitLL /\ [][NextLL]_vars

\* --------------------- PageInfoListener: actions

InitReg ==
  /\ IsTA(TabAllocator(1))
  /\ tabReady = {}
  /\ pc = [j \in Jobs |-> "idle"]
  /\ requests = <<>>
  /\ everQueued = {}
  /\ IsREG(PageInfoListener)
  /\ NoCrawl
  /\ NoAct

\* crawl_url registers the outerWindowID of the tab it holds; it holds the
\* tab until the returned promise has resolved, so the key has no pending
\* registration when expect() is called
Expect(k) ==
  /\ nextReg \in RegIds
  /\ UNCHANGED actVars
  /\ _pageInfoSetters[k] = NoReg
  /\ SetREG(expect(REG, k))
  /\ lastCall' = [op |-> "expect", key |-> k, value |-> "none",
                  hit |-> _pageInfoSetters[k] # NoReg,
                  threw |-> expect(REG, k).threw]
  /\ callNo' = callNo + 1
  /\ UNCHANGED <<taVars, signals, crawlVars>>

\* the abpcrawler:pageInfoGathered message arrives: onWindowLoaded calls
\* setPageInfo(msg.data.outerWindowID, msg.data.pageInfo)
SetPageInfo(k, v) ==
  /\ signals < MaxSignals
  /\ UNCHANGED actVars
  /\ signals' = signals + 1
  /\ SetREG(setPageInfo(REG, k, v))
  /\ lastCall' = [op |-> "setPageInfo", key |-> k, value |-> v,
                  hit |-> _pageInfoSetters[k] # NoReg,
                  threw |-> setPageInfo(REG, k, v).threw]
  /\ callNo' = callNo + 1
  /\ UNCHANGED <<taVars, crawlVars>>

\* the timer of registration r fires: onDone({error: "timeout"})
Timeout(r) ==
  /\ r \in timers
  /\ UNCHANGED actVars
  /\ SetREG(onDone(REG, r, TimeoutResult))
  /\ lastCall' = [op |-> "timeout", key |-> regKey[r],
                  value |-> TimeoutResult, hit |-> TRUE,
                  threw |-> onDone(REG, r, TimeoutResult).threw]
  /\ callNo' = callNo + 1
  /\ UNCHANGED <<taVars, signals, crawlVars>>

NextReg ==
  \/ \E k \in Keys : Expect(k)
  \/ \E k \in Keys, v \in Payloads : SetPageInfo(k, v)
  \/ \E r \in RegIds : Timeout(r)

SpecReg == InitReg /\ [][NextReg]_vars

\* a timer that stays armed fires
FairSpecReg == SpecReg /\ \A r \in RegIds : WF_vars(Timeout(r))

\* --------------------- PageInfoListener: any caller of expect

\* expect(k) called by any caller, also while a registration of k is pending
ExpectAny(k) ==
  /\ nextReg \in RegIds
  /\ UNCHANGED actVars
  /\ SetREG(expect(REG, k))
  /\ lastCall' = [op |-> "expect", key |-> k, value |-> "none",
                  hit |-> _pageInfoSetters[k] # NoReg,
                  threw |-> expect(REG, k).threw]
  /\ callNo' = callNo + 1
  /\ UNCHANGED <<taVars, signals, crawlVars>>

NextRegAny ==
  \/ \E k \in Keys : ExpectAny(k)
  \/ \E k \in Keys, v \in Payloads : SetPageInfo(k, v)
  \/ \E r \in RegIds : Timeout(r)

SpecRegAny == InitReg /\ [][NextRegAny]_vars

\* --------------------- PageInfoListener-based crawler: run, crawl_urls,
\* --------------------- crawl_url

\* the actions FilterNotifier passes to its listeners
FilterActions == {"load", "save"}

\* the pageInfo a frame script sends for a crawled page
CrawlPayloads == {"pageInfoA"}

\* where crawl_url can throw before it suspends on pageInfoFuture
Faults == {"none", "RequestNotifier", "loadURI"}

\* the state run() reads and writes: the promise that gates crawl_urls
GATE == [phase |-> phase, listening |-> listening, gateBy |-> gateBy]

SetGATE(g) ==
  /\ phase' = g.phase
  /\ listening' = g.listening
  /\ gateBy' = g.gateBy

\* the executor of the promise in run(): resolve at once if FilterStorage has
\* subscriptions, else register onFiltersLoaded
run(g, hasSubscriptions) ==
  IF hasSubscriptions
  THEN [g EXCEPT !.phase = "open", !.gateBy = "subscriptions"]
  ELSE [g EXCEPT !.phase = "gated", !.listening = TRUE]

\* onFiltersLoaded that resolves on every action
onFiltersLoaded_anyAction(g, action) ==
  [g EXCEPT !.listening = FALSE,
            !.phase = IF @ = "gated" THEN "open" ELSE @]

\* onFiltersLoaded(action): on "load" it removes itself and resolves
onFiltersLoaded(g, action) ==
  IF action = "load"
  THEN [g EXCEPT !.listening = FALSE,
                 !.phase = IF @ = "gated" THEN "open" ELSE @,
                 !.gateBy = IF @ = "none" THEN "load" ELSE @]
  ELSE g

\* a loop body that starts the task only while the pool has a free tab
Spawn_whenFree(a, j) ==
  IF a.tab = NoTab /\ a.tabs >= a.maxtabs THEN a ELSE getTab(a, j)

\* one iteration of the loop of crawl_urls: Task.spawn(crawl_url...) runs the
\* generator at once to its first yield, tabAllocator.getTab()
Spawn(a, j) == getTab(a, j)

\* the for loop of crawl_urls reaches, for urls 1..n in order, the first
\* yield of crawl_url: tabAllocator.getTab()
RECURSIVE Launch(_, _)
Launch(a, n) == IF n = 0 THEN a ELSE Spawn(Launch(a, n - 1), n)

\* taskDone with the test `running <= 1`
taskDone_early(c) ==
  LET r == c.running - 1
  IN [running |-> r,
      onDoneCalls |-> IF r <= 1 THEN c.onDoneCalls + 1 ELSE c.onDoneCalls]

\* taskDone(): running--; if (running <= 0) onDone()
taskDone(c) ==
  LET r == c.running - 1
  IN [running |-> r,
      onDoneCalls |-> IF r <= 0 THEN c.onDoneCalls + 1 ELSE c.onDoneCalls]

\* the finally block of crawl_url: requestNotifier.shutdown() if the notifier
\* was constructed, then tabAllocator.releaseTab(tab); a throw of shutdown()
\* leaves the block before releaseTab
Finally(a, tab, hasNotifier, shutdownThrows) ==
  IF hasNotifier /\ shutdownThrows
  THEN [ta |-> a, steps |-> <<"shutdown!">>, threw |-> TRUE]
  ELSE [ta |-> releaseTab(a, tab),
        steps |-> IF hasNotifier THEN <<"shutdown", "releaseTab">>
                  ELSE <<"releaseTab">>,
        threw |-> FALSE]

\* the record the fulfilment handler sends: the result of crawl_url, which
\* holds the pageInfo (for a timeout, {error: "timeout"})
ResultRecord(j, v) ==
  [url |-> j, kind |-> "result",
   error |-> IF v = TimeoutResult THEN TimeoutResult ELSE "none"]

\* the record the rejection handler sends: {url, startTime, error}
ErrorRecord(j) == [url |-> j, kind |-> "exception", error |-> "exception"]

\* before run(urls, ...) is called: the window has its initial tab, there is
\* no allocator and no listener; maxtabs and urls are run's arguments
InitCrawl ==
  /\ \E m \in 1..MaxCapacity : IsTA(NoAllocator(m))
  /\ tabReady = {}
  /\ pc = [j \in Jobs |-> "idle"]
  /\ requests = <<>>
  /\ everQueued = {}
  /\ IsREG(NewPageInfoListener(TabIds, Jobs))
  /\ phase = "notRun"
  /\ listening = FALSE
  /\ gateBy = "none"
  /\ crawlCalls = 0
  /\ numUrls \in 0..NumJobs
  /\ running = 0
  /\ onDoneCalls = 0
  /\ jobReg = [j \in Jobs |-> NoReg]
  /\ trace = [j \in Jobs |-> <<>>]
  /\ post = [j \in Jobs |-> "none"]
  /\ record = [j \in Jobs |-> NoRecord]
  /\ sends = [j \in Jobs |-> 0]
  /\ taskDones = [j \in Jobs |-> 0]
  /\ postLoaded = FALSE
  /\ faults = 0
  /\ NoAct

\* run(): FilterStorage.subscriptions is empty or not
Run(hasSubscriptions) ==
  /\ phase = "notRun"
  /\ UNCHANGED actVars
  /\ SetGATE(run(GATE, hasSubscriptions))
  /\ UNCHANGED <<taVars, regVars, crawlCalls, numUrls, running, onDoneCalls,
                 jobReg, trace, post, record, sends, taskDones,
                 postLoaded, faults>>

\* FilterNotifier calls its listeners with an action: onFiltersLoaded, while
\* it is registered
FilterEvent(action) ==
  /\ phase # "notRun"
  /\ listening
  /\ UNCHANGED actVars
  /\ SetGATE(IF listening THEN onFiltersLoaded(GATE, action) ELSE GATE)
  /\ UNCHANGED <<taVars, regVars, crawlCalls, numUrls, running, onDoneCalls,
                 jobReg, trace, post, record, sends, taskDones,
                 postLoaded, faults>>

\* the reaction of the gate promise: crawl_urls(...) creates the listener and
\* the allocator and spawns one task per url; each task runs to its getTab()
CrawlUrls ==
  /\ phase = "open"
  /\ UNCHANGED actVars
  /\ phase' = "crawling"
  /\ crawlCalls' = crawlCalls + 1
  /\ SetREG(NewPageInfoListener(TabIds, Jobs))
  /\ SetTA(Launch(TabAllocator(_maxtabs), numUrls))
  /\ running' = running + numUrls
  /\ pc' = [j \in Jobs |-> IF j <= numUrls THEN "waiting" ELSE pc[j]]
  /\ requests' = [i \in 1..numUrls |-> i]
  /\ everQueued' =
       {j \in Jobs : \E i \in 1..Len(Launch(TabAllocator(_maxtabs),
                                            numUrls).resolvers) :
                       Launch(TabAllocator(_maxtabs), numUrls).resolvers[i] = j}
  /\ trace' = [j \in Jobs |-> IF j <= numUrls THEN <<"getTab">> ELSE trace[j]]
  /\ UNCHANGED <<tabReady, lastCall, callNo, signals, listening, gateBy,
                 numUrls, onDoneCalls, jobReg, post, record, sends,
                 taskDones, postLoaded, faults>>

\* pageInfoListener.expect(outerWindowID) called by job j; the registration
\* is named after the job that makes it, whatever the order of the calls
ExpectBy(g, j, k) == [expect([g EXCEPT !.next = j], k) EXCEPT !.next = g.next]

\* the promise of Task.spawn settles and its handler posts one record: the
\* handler reads only its own url and the settlement value, so it is taken
\* in the step that settles the task
Report(j, rec) ==
  /\ record' = [record EXCEPT ![j] = rec]
  /\ sends' = [sends EXCEPT ![j] = @ + 1]
  /\ post' = [post EXCEPT ![j] = "sent"]

\* the getTab() promise of job j is resolved: crawl_url runs from `let result`
\* to `yield pageInfoFuture`, or throws on the way and runs its finally block
CrawlStart(j, fault, shutdownThrows) ==
  /\ phase = "crawling"
  /\ pc[j] = "waiting"
  /\ jobTab[j] \in tabReady
  /\ fault # "loadURI" => ~shutdownThrows
  /\ faults' = faults + (IF fault = "none" THEN 0 ELSE 1)
                       + (IF shutdownThrows THEN 1 ELSE 0)
  /\ faults' <= MaxFaults
  /\ UNCHANGED actVars
  /\ IF fault = "none"
     THEN /\ SetREG(ExpectBy(REG, j, jobTab[j]))
          /\ jobReg' = [jobReg EXCEPT ![j] = j]
          /\ pc' = [pc EXCEPT ![j] = "holding"]
          /\ trace' = [trace EXCEPT ![j] =
                         @ \o <<"acquired", "RequestNotifier", "expect",
                                "loadURI">>]
          /\ SetTA(TA)
          /\ UNCHANGED <<post, record, sends>>
     ELSE IF fault = "RequestNotifier"
     THEN /\ SetTA(Finally(TA, jobTab[j], FALSE, FALSE).ta)
          /\ pc' = [pc EXCEPT ![j] = "failed"]
          /\ Report(j, ErrorRecord(j))
          /\ trace' = [trace EXCEPT ![j] =
                         @ \o <<"acquired", "RequestNotifier!">>
                           \o Finally(TA, jobTab[j], FALSE, FALSE).steps]
          /\ UNCHANGED <<_pageInfoSetters, timers, future, resolveCount,
                         regKey, nextReg, jobReg>>
     ELSE /\ SetREG(ExpectBy(REG, j, jobTab[j]))
          /\ jobReg' = [jobReg EXCEPT ![j] = j]
          /\ SetTA(Finally(TA, jobTab[j], TRUE, shutdownThrows).ta)
          /\ pc' = [pc EXCEPT ![j] = "failed"]
          /\ Report(j, ErrorRecord(j))
          /\ trace' = [trace EXCEPT ![j] =
                         @ \o <<"acquired", "RequestNotifier", "expect",
                                "loadURI!">>
                           \o Finally(TA, jobTab[j], TRUE, shutdownThrows).steps]
  /\ UNCHANGED <<tabReady, requests, everQueued, lastCall, callNo, signals,
                 phase, listening, gateBy, crawlCalls, numUrls, running,
                 onDoneCalls, taskDones, postLoaded>>

\* the frame script of job j's tab sends abpcrawler:pageInfoGathered for the
\* page loaded by loadURI: onWindowLoaded calls setPageInfo.  A message that
\* arrives after the job has left its tab finds no entry (tabs are never
\* handed out twice) and is left out.
CrawlSignal(j, v) ==
  /\ phase = "crawling"
  /\ pc[j] = "holding"
  /\ UNCHANGED actVars
  /\ SetREG(setPageInfo(REG, jobTab[j], v))
  /\ UNCHANGED <<taVars, lastCall, callNo, signals, phase, listening, gateBy,
                 crawlCalls, numUrls,
                 running, onDoneCalls, jobReg, trace, post, record, sends,
                 taskDones, postLoaded, faults>>

\* the timer armed by job j's expect() call fires
CrawlTimeout(j) ==
  /\ jobReg[j] # NoReg
  /\ jobReg[j] \in timers
  /\ UNCHANGED actVars
  /\ SetREG(onDone(REG, jobReg[j], TimeoutResult))
  /\ UNCHANGED <<taVars, lastCall, callNo, signals, crawlVars>>

\* pageInfoFuture of job j is resolved: crawl_url runs from the assignment of
\* pageInfo through its finally block and returns or throws
CrawlFinish(j, shutdownThrows) ==
  /\ pc[j] = "holding"
  /\ UNCHANGED actVars
  /\ future[jobReg[j]].state = "resolved"
  /\ SetTA(Finally(TA, jobTab[j], TRUE, shutdownThrows).ta)
  /\ faults' = faults + (IF shutdownThrows THEN 1 ELSE 0)
  /\ faults' <= MaxFaults
  /\ pc' = [pc EXCEPT ![j] = IF shutdownThrows THEN "failed" ELSE "done"]
  /\ Report(j, IF shutdownThrows THEN ErrorRecord(j)
               ELSE ResultRecord(j, future[jobReg[j]].value))
  /\ trace' = [trace EXCEPT ![j] =
                 @ \o <<"pageInfo">>
                   \o Finally(TA, jobTab[j], TRUE, shutdownThrows).steps]
  /\ UNCHANGED <<tabReady, requests, everQueued, regVars, phase, listening,
                 gateBy, crawlCalls, numUrls, running, onDoneCalls, jobReg,
                 taskDones, postLoaded>>

\* only the "load" listener calls taskDone
PostEvent_loadOnly(j, event) ==
  /\ post[j] = "sent"
  /\ UNCHANGED actVars
  /\ post' = [post EXCEPT ![j] = "finished"]
  /\ postLoaded' = (postLoaded \/ event = "load")
  /\ taskDones' = [taskDones EXCEPT ![j] = @ + (IF event = "load" THEN 1 ELSE 0)]
  /\ running' = IF event = "load"
                THEN taskDone([running |-> running,
                               onDoneCalls |-> onDoneCalls]).running
                ELSE running
  /\ onDoneCalls' = IF event = "load"
                    THEN taskDone([running |-> running,
                                   onDoneCalls |-> onDoneCalls]).onDoneCalls
                    ELSE onDoneCalls
  /\ UNCHANGED <<taVars, regVars, phase,
                 listening, gateBy, crawlCalls, numUrls, jobReg, trace,
                 record, sends, faults>>

\* the request of job j fires "load" or "error": taskDone
PostEvent(j, event) ==
  /\ post[j] = "sent"
  /\ UNCHANGED actVars
  /\ post' = [post EXCEPT ![j] = "finished"]
  /\ postLoaded' = (postLoaded \/ event = "load")
  /\ taskDones' = [taskDones EXCEPT ![j] = @ + 1]
  /\ running' = taskDone([running |-> running,
                          onDoneCalls |-> onDoneCalls]).running
  /\ onDoneCalls' = taskDone([running |-> running,
                              onDoneCalls |-> onDoneCalls]).onDoneCalls
  /\ UNCHANGED <<taVars, regVars, phase,
                 listening, gateBy, crawlCalls, numUrls, jobReg, trace,
                 record, sends, faults>>

NextCrawl ==
  \/ \E b \in BOOLEAN : Run(b)
  \/ \E action \in FilterActions : FilterEvent(action)
  \/ CrawlUrls
  \/ \E t \in TabIds : TabReady(t)
  \/ \E j \in Jobs, f \in Faults, s \in BOOLEAN : CrawlStart(j, f, s)
  \/ \E j \in Jobs, v \in CrawlPayloads : CrawlSignal(j, v)
  \/ \E j \in Jobs : CrawlTimeout(j)
  \/ \E j \in Jobs, s \in BOOLEAN : CrawlFinish(j, s)
  \/ \E j \in Jobs, e \in {"load", "error"} : PostEvent(j, e)

SpecCrawl == InitCrawl /\ [][NextCrawl]_vars

\* creations become ready, armed timers fire, settled promises run their
\* reactions, every request fires load or error; no page is obliged to send
\* its page info and no filter list is obliged to load
FairSpecCrawl ==
  /\ SpecCrawl
  /\ WF_vars(CrawlUrls)
  /\ \A t \in TabIds : WF_vars(TabReady(t))
  /\ \A j \in Jobs : WF_vars(\E f \in Faults, s \in BOOLEAN : CrawlStart(j, f, s))
  /\ \A j \in Jobs : WF_vars(CrawlTimeout(j))
  /\ \A j \in Jobs : WF_vars(\E s \in BOOLEAN : CrawlFinish(j, s))
  /\ \A j \in Jobs : WF_vars(\E e \in {"load", "error"} : PostEvent(j, e))

\* --------------------- the action library: Asynchronous_Action, Defer, Delay

\* the fields of action a gathered as a value; `kind` is the class of the
\* object, fixed by the constructor that made it
ACT(a) == [kind |-> IF a % 2 = 1 THEN "Defer" ELSE "Delay",
           state |-> _state[a], try_f |-> try_f[a],
           finally_f |-> finally_f[a], catch_f |-> catch_f[a],
           dispatched |-> dispatched[a], delayed |-> delayed[a],
           calls |-> calls[a], threw |-> escaped[a]]

SetACT(a, o) ==
  /\ _state' = [_state EXCEPT ![a] = o.state]
  /\ try_f' = [try_f EXCEPT ![a] = o.try_f]
  /\ finally_f' = [finally_f EXCEPT ![a] = o.finally_f]
  /\ catch_f' = [catch_f EXCEPT ![a] = o.catch_f]
  /\ dispatched' = [dispatched EXCEPT ![a] = o.dispatched]
  /\ delayed' = [delayed EXCEPT ![a] = o.delayed]
  /\ calls' = [calls EXCEPT ![a] = o.calls]
  /\ escaped' = [escaped EXCEPT ![a] = o.threw]

\* new Action.Defer(f) and new Action.Delay(f, duration):
\* Asynchronous_Action.init sets _state to Ready, the constructor sets try_f
NewAction(f) ==
  [state |-> State.Ready, try_f |-> f, finally_f |-> NoFn, catch_f |-> NoFn,
   dispatched |-> 0, delayed |-> 0, calls |-> <<>>, threw |-> FALSE]

\* `if ( f ) f()`: the call of a user function, which finds the action in
\* the state it has at that moment, and returns or throws
Call(o, name, f) ==
  IF f = NoFn
  THEN [o EXCEPT !.threw = FALSE]
  ELSE [o EXCEPT !.calls = Append(@, [fn |-> name, saw |-> o.state]),
                 !.threw = (f = "throws")]

\* end_well() that calls the finally function before it changes the state
end_well_callFirst(o) ==
  [Call(o, "finally", o.finally_f) EXCEPT !.state = State.Done]

\* end_well(): _state = Done, then the finally function; its exception leaves
end_well(o) == Call([o EXCEPT !.state = State.Done], "finally", o.finally_f)

\* end_badly() without the try-finally statement
end_badly_noFinally(o) ==
  LET c == Call([o EXCEPT !.state = State.Exception], "catch", o.catch_f)
  IN IF c.threw THEN c ELSE Call(c, "finally", c.finally_f)

\* end_badly(e): _state = Exception, then the catch function, and in the
\* finally block the finally function, also when the catch function threw
end_badly(o) ==
  LET c == Call([o EXCEPT !.state = State.Exception], "catch", o.catch_f)
      f == Call(c, "finally", c.finally_f)
  IN [f EXCEPT !.threw = c.threw \/ f.threw]

\* Defer_class._body and Delay_class._body: the trial inside try-catch, then
\* end_badly(e) if it threw and end_well() if not
_body(o) ==
  LET t == Call(o, "try", o.try_f)
  IN IF t.threw THEN end_badly(t) ELSE end_well(t)

\* Defer_class._go: Async_Platform.dispatch(_body), and Delay_class._go:
\* Async_Platform.set_timer(_body, duration); the platform runs the callback
\* after the current thread has run to completion
_go(o) ==
  LET p == [o EXCEPT !.calls = Append(@, [fn |-> "_go", saw |-> o.state])]
  IN IF o.kind = "Defer"
     THEN [p EXCEPT !.dispatched = @ + 1]
     ELSE [p EXCEPT !.delayed = @ + 1]

\* go() without the test of the state
go_noCheck(o, f, c) ==
  _go([o EXCEPT !.finally_f = f, !.catch_f = c, !.state = State.Running,
                !.threw = FALSE])

\* go() that starts the subprogram before it changes the state
go_startFirst(o, f, c) ==
  IF o.state # State.Ready
  THEN [o EXCEPT !.threw = TRUE]
  ELSE [_go([o EXCEPT !.finally_f = f, !.catch_f = c, !.threw = FALSE])
          EXCEPT !.state = State.Running]

\* Asynchronous_Action.prototype.go(finally_f, catch_f)
go(o, f, c) ==
  IF o.state # State.Ready
  THEN [o EXCEPT !.threw = TRUE]
  ELSE _go([o EXCEPT !.finally_f = f, !.catch_f = c,
                     !.state = State.Running, !.threw = FALSE])

\* the actions have been constructed, each with its trial
InitAction ==
  /\ IsTA(TabAllocator(1))
  /\ tabReady = {}
  /\ pc = [j \in Jobs |-> "idle"]
  /\ requests = <<>>
  /\ everQueued = {}
  /\ IsREG(PageInfoListener)
  /\ NoCrawl
  /\ try_f \in [Actions -> Fns]
  /\ _state = [a \in Actions |-> NewAction(try_f[a]).state]
  /\ finally_f = [a \in Actions |-> NewAction(try_f[a]).finally_f]
  /\ catch_f = [a \in Actions |-> NewAction(try_f[a]).catch_f]
  /\ dispatched = [a \in Actions |-> NewAction(try_f[a]).dispatched]
  /\ delayed = [a \in Actions |-> NewAction(try_f[a]).delayed]
  /\ calls = [a \in Actions |-> NewAction(try_f[a]).calls]
  /\ escaped = [a \in Actions |-> NewAction(try_f[a]).threw]
  /\ goCalls = 0
  /\ lastGo = 0

\* a caller calls a.go(f, c), in whatever state a is
Go(a, f, c) ==
  /\ goCalls < MaxGoCalls
  /\ SetACT(a, go(ACT(a), f, c))
  /\ goCalls' = goCalls + 1
  /\ lastGo' = a
  /\ UNCHANGED <<taVars, regVars, crawlVars>>

\* the platform runs a callback given to dispatch: _body of a Defer
Dispatch(a) ==
  /\ dispatched[a] > 0
  /\ SetACT(a, _body([ACT(a) EXCEPT !.dispatched = @ - 1]))
  /\ UNCHANGED <<taVars, regVars, crawlVars, goCalls, lastGo>>

\* the platform runs a callback given to set_timer: _body of a Delay
TimerFires(a) ==
  /\ delayed[a] > 0
  /\ SetACT(a, _body([ACT(a) EXCEPT !.delayed = @ - 1]))
  /\ UNCHANGED <<taVars, regVars, crawlVars, goCalls, lastGo>>

NextAction ==
  \/ \E a \in Actions, f \in Fns, c \in Fns : Go(a, f, c)
  \/ \E a \in Actions : Dispatch(a)
  \/ \E a \in Actions : TimerFires(a)

SpecAction == InitAction /\ [][NextAction]_vars

\* ---------------------------------------------------------------- claims
Holding == {j \in Jobs : pc[j] = "holding"}
\* jobs whose getTab() promise is bound to a tab and that have not released it
InUse == {j \in Jobs : pc[j] \in {"waiting", "holding"} /\ jobTab[j] # NoTab}
\* position of job j's getTab() call among all getTab() calls
Pos(j) == CHOOSE i \in 1..Len(requests) : requests[i] = j
Requested(j) == \E i \in 1..Len(requests) : requests[i] = j

TypeOK ==
  /\ _tabs \in Int
  /\ nextTab \in 1..(MaxTabId + 1)
  /\ nextReg \in 1..(MaxRegs + 1)
  /\ \A j \in Jobs : jobTab[j] \in TabIds \cup {NoTab}

\* C1: in the PageInfoListener-based TabAllocator the number of tabs handed
\* to a caller by getTab (even as a promise still pending) and not yet passed
\* to releaseTab is at most maxtabs, in every reachable state.
C1_InUseAtMostMaxtabs == Cardinality(InUse) <= _maxtabs

\* C1 witness: the pool is saturated with held tabs, a request waits and a
\* release has already happened.
C1_Witness ==
  /\ Cardinality(Holding) = _maxtabs
  /\ Len(_resolvers) > 0
  /\ \E j \in Jobs : pc[j] = "done"

\* C2: in the LoadListener-based TabAllocator, as long as no releaseTab call
\* has been made, at most maxtabs getTab requests are bound to a tab (the
\* others wait in _resolvers).
C2_LL_AtMostMaxtabsHandedOut ==
  (\A j \in Jobs : pc[j] # "done")
     => Cardinality({j \in Jobs : jobTab[j] # NoTab}) <= _maxtabs

\* C3: in the PageInfoListener-based TabAllocator _tabs never exceeds
\* _maxtabs, for every maxtabs >= 1.
C3_TabsAtMostMaxtabs == _tabs <= _maxtabs

\* C4: requests are served in FIFO order: no caller holds or has held a tab
\* while a request made before its own is still waiting in _resolvers
\* without a tab (such a caller was given its tab strictly before the
\* earlier one).
C4_Fifo ==
  \A x, y \in Jobs :
    (/\ Requested(x) /\ Requested(y)
     /\ Pos(x) < Pos(y)
     /\ pc[y] \in {"holding", "done"})
      => jobTab[x] # NoTab

C6_NeverZeroTabs == Cardinality(browserTabs) >= 1

\* C6 witness: the initial tab has been swapped out and a released last tab
\* has been removed after its replacement became ready.
C6_Witness ==
  /\ InitialTab \notin browserTabs
  /\ \E t \in tabReady : /\ onReady[t].kind = "releaseTab"
                          /\ onReady[t].arg \notin browserTabs

\* C7: in the LoadListener-based TabAllocator releasing the last open tab
\* never leaves the browser with zero tabs.
C7_LL_NeverZeroTabs == browserTabs # {}

\* C8: no tab is bound to two getTab callers at once, and the unused
\* keep-alive tab _tab is bound to no caller.
C8_NoTabSharedByTwoCallers ==
  /\ \A j, k \in InUse : j # k => jobTab[j] # jobTab[k]
  /\ \A j \in InUse : jobTab[j] # _tab

\* C8 witness: two callers hold tabs at the same time, one got the bootstrap
\* tab and the other was served from _resolvers by a releaseTab.
C8_Witness ==
  \E j, k \in Holding :
    /\ how[j] = "bootstrap"
    /\ how[k] \in {"handedCreated", "handedBootstrap"}

\* C9: setPageInfo(key, payload) for a key without pending registration is a
\* no-op: it does not throw, resolves no promise, leaves the map (and the
\* timers) unchanged.
C9_UnmatchedSignalIsNoOp ==
  [][(/\ callNo' # callNo
      /\ lastCall'.op = "setPageInfo"
      /\ _pageInfoSetters[lastCall'.key] = NoReg)
       => (/\ ~lastCall'.threw
           /\ UNCHANGED <<_pageInfoSetters, timers, future, resolveCount,
                          regKey, nextReg>>)]_vars

\* C9 witness: a signal arrived for a key that had no registration, after a
\* registration of that key had timed out.
C9_Witness ==
  /\ lastCall.op = "setPageInfo"
  /\ ~lastCall.hit
  /\ \E r \in RegIds : /\ regKey[r] = lastCall.key
                        /\ future[r] = Resolved(TimeoutResult)

\* C10: the promise of expect(key) resolves exactly once and never rejects:
\* with the payload of the first setPageInfo(key, payload) that finds it
\* pending, or with the timeout sentinel when its timer fires; the
\* registration is removed at resolution; a pending promise does resolve
\* (a promise leaves "pending" only by resolving, so from some point on no
\* promise is pending).
C10_Settled(r) ==
  /\ future[r].state \in {"unused", "pending", "resolved"}
  /\ future[r].state = "unused" => resolveCount[r] = 0
  /\ future[r].state = "pending" =>
       (resolveCount[r] = 0 /\ _pageInfoSetters[regKey[r]] = r
          /\ r \in timers)
  /\ future[r].state = "resolved" =>
       (resolveCount[r] = 1 /\ _pageInfoSetters[regKey[r]] # r
          /\ r \notin timers)

C10_Step(r) ==
  /\ (future[r].state = "resolved") => future'[r] = future[r]
  /\ (future[r].state = "pending" /\ future'[r] # future[r]) =>
       /\ lastCall'.op \in {"setPageInfo", "timeout"}
       /\ lastCall'.key = regKey[r]
       /\ future'[r] = Resolved(lastCall'.value)
       /\ lastCall'.op = "setPageInfo" => lastCall'.value \in Payloads
       /\ lastCall'.op = "timeout" => lastCall'.value = TimeoutResult
       /\ _pageInfoSetters'[regKey[r]] = NoReg
  /\ (future[r].state = "pending" /\ lastCall'.key = regKey[r]
        /\ callNo' # callNo) => future'[r].state = "resolved"

C10_ExpectResolvesOnce ==
  /\ [](\A r \in RegIds : C10_Settled(r))
  /\ [][\A r \in RegIds : C10_Step(r)]_vars
  /\ <>[](\A r \in RegIds : future[r].state # "pending")

\* C10 witness: one promise resolved with a payload, another with the
\* timeout sentinel.
C10_Witness ==
  \E r, q \in RegIds : /\ future[r] = Resolved(TimeoutResult)
                        /\ future[q].state = "resolved"
                        /\ future[q].value \in Payloads

\* number of occurrences of step x in a job's trace
Count(seq, x) == Cardinality({i \in 1..Len(seq) : seq[i] = x})
\* number of tabAllocator.releaseTab(tab) calls made by job j's crawl_url
Releases(j) == Count(trace[j], "releaseTab")
\* the urls of the batch
Urls == 1..numUrls
\* crawl_url of job j has returned or thrown
Ended(j) == pc[j] \in {"done", "failed"}

\* C11: every crawl_url whose getTab() resolved calls releaseTab with its tab
\* exactly once: never twice, and once by the time it has returned or thrown,
\* whether its steps completed, timed out or threw (RequestNotifier
\* constructor, loadURI, requestNotifier.shutdown in the finally block).
C11_ReleasedExactlyOnce ==
  \A j \in Jobs :
    /\ Releases(j) <= 1
    /\ Ended(j) => Releases(j) = 1

\* C12: in crawl_urls onDone is invoked at most once per batch, and the step
\* that invokes it brings running to zero, comes after every job was launched
\* and after exactly len(urls) records were handed to the result sink.
C12_OnDoneStep ==
  onDoneCalls' # onDoneCalls =>
    /\ onDoneCalls = 0
    /\ onDoneCalls' = 1
    /\ running' = 0
    /\ phase = "crawling"
    /\ \A j \in Urls : pc[j] # "idle" /\ sends[j] = 1 /\ record[j].url = j
    /\ Cardinality({j \in Jobs : sends[j] > 0}) = numUrls

C12_OnDoneAtMostOnceAtZero == [][C12_OnDoneStep]_vars

\* C12 witness: a batch of at least two urls has completed; one POST fired
\* load, and onDone has been called.
C12_Witness ==
  /\ numUrls >= 2
  /\ onDoneCalls = 1
  /\ running = 0
  /\ postLoaded
  /\ \E j \in Urls : pc[j] = "failed"

\* C13: for an empty urls list the batch completes at once: when crawl_urls
\* has run with no url, onDone has been invoked exactly once and no job was
\* launched.
C13_EmptyBatchCompletes ==
  (phase = "crawling" /\ numUrls = 0) =>
    /\ onDoneCalls = 1
    /\ \A j \in Jobs : pc[j] = "idle"


\* every job of the batch has handed its record to the result sink
AllReported == \A j \in Urls : sends[j] >= 1

\* C14: for a non-empty batch, once every job has reported and every POST
\* has fired load or error, onDone has been invoked exactly once, whatever the
\* jobs' outcomes (failed, timed out) and whatever the POSTs' events.
C14_OnDoneOnceAllReported ==
  (phase = "crawling" /\ numUrls > 0 /\ AllReported
     /\ \A j \in Urls : post[j] = "finished")
    => onDoneCalls = 1

\* C14 witness: every job of a batch of two or more failed or timed out, every
\* POST ended with error, and onDone has been invoked.
C14_Witness ==
  /\ numUrls >= 2
  /\ \A j \in Urls : post[j] = "finished" /\ record[j].error # "none"
  /\ \E j \in Urls : record[j].error = TimeoutResult
  /\ \E j \in Urls : record[j].kind = "exception"
  /\ ~postLoaded
  /\ onDoneCalls = 1


\* all created tabs are ready, no job holds a tab or has a tab coming, no POST
\* is in flight: no job can take another step
Stuck ==
  /\ phase = "crawling"
  /\ \A t \in browserTabs \ {InitialTab} : t \in tabReady
  /\ \A j \in Urls : pc[j] = "waiting" => jobTab[j] = NoTab
  /\ \A j \in Urls : pc[j] # "holding" /\ post[j] # "sent"

\* C15: every url yields exactly one record and one POST: never two, none for
\* a non-url; a crawl_url that returned has sent its result record, one that
\* threw a record with its url and the error; no url is left with zero
\* records (when the batch completes or can take no further step, every url
\* has its record).
C15_OneRecordPerUrl ==
  /\ \A j \in Jobs :
       /\ sends[j] <= 1
       /\ j \notin Urls => sends[j] = 0
       /\ sends[j] = 1 => record[j].url = j
       /\ pc[j] = "done" =>
            sends[j] = 1 /\ record[j].kind = "result"
       /\ pc[j] = "failed" =>
            /\ sends[j] = 1
            /\ record[j].kind = "exception"
            /\ record[j].error = "exception"
  /\ (onDoneCalls >= 1 \/ Stuck) => \A j \in Urls : sends[j] = 1

\* job j has resumed after its getTab()
Acquired(j) == Count(trace[j], "acquired") = 1

\* C16: with maxtabs = 1 and 3 urls the jobs run strictly one after the
\* other: job k+1's getTab resolves only after job k has called releaseTab,
\* at most one job is between acquisition and release, and all 3 records are
\* reported (a batch that can take no further step has reported all 3).
C16_SequentialAllReported ==
  (_maxtabs = 1 /\ numUrls = 3 /\ phase = "crawling") =>
    /\ \A k \in 1..2 : Acquired(k + 1) => Releases(k) = 1
    /\ Cardinality(Holding) <= 1
    /\ Stuck => \A j \in Urls : sends[j] = 1

\* C17: a job whose completion is never signalled gets, after the timeout, a
\* record with error "timeout", its tab is released, and the jobs queued
\* behind it acquire a tab and run (none is left queued when nothing more
\* can happen).
C17_TimeoutReleasesAndUnblocks ==
  /\ \A j \in Urls :
       (Ended(j) /\ jobReg[j] # NoReg /\ Count(trace[j], "pageInfo") = 1
          /\ future[jobReg[j]].value = TimeoutResult)
         => (record[j].error = TimeoutResult /\ Releases(j) = 1)
  /\ (Stuck /\ \E j \in Urls : Ended(j) /\ jobReg[j] # NoReg
                                /\ future[jobReg[j]].value = TimeoutResult)
       => \A j \in Urls : pc[j] # "waiting"


\* C18: run() starts no job before the gate is satisfied: until crawl_urls is
\* called there is no TabAllocator, no getTab and no loaded url; crawl_urls is
\* called only once FilterStorage had subscriptions or the "load" action was
\* received, and at most once.
C18_GateBeforeCrawl ==
  /\ crawlCalls <= 1
  /\ crawlCalls = 1 => gateBy # "none"
  /\ phase \in {"notRun", "gated"} => crawlCalls = 0
  /\ crawlCalls = 0 =>
       /\ _tabs = 0 /\ _tab = NoTab /\ nextTab = 1
       /\ browserTabs = {InitialTab}
       /\ requests = <<>>
       /\ \A j \in Jobs : pc[j] = "idle" /\ trace[j] = <<>>

\* C18 witness: run() found no subscriptions, the "load" action arrived,
\* crawl_urls was called once and a job has loaded its url.
C18_Witness ==
  /\ gateBy = "load"
  /\ ~listening
  /\ crawlCalls = 1
  /\ \E j \in Urls : Count(trace[j], "loadURI") = 1


\* C19: getTab of the PageInfoListener-based TabAllocator decides in this
\* order: an unused _tab is returned and cleared; else, if _tabs < _maxtabs, a
\* new tab is created and returned; else the request is appended to the tail
\* of _resolvers and stays pending.  The other pool fields stay as they are.
C19_GetTabStep(j) ==
  requests' = Append(requests, j) =>
    /\ \A i \in Jobs \ {j} : jobTab'[i] = jobTab[i]
    /\ _maxtabs' = _maxtabs
    /\ IF _tab # NoTab
       THEN /\ jobTab'[j] = _tab
            /\ _tab' = NoTab
            /\ UNCHANGED <<_tabs, _resolvers, browserTabs, nextTab>>
       ELSE IF _tabs < _maxtabs
       THEN /\ jobTab'[j] = nextTab
            /\ nextTab \notin browserTabs
            /\ browserTabs' = browserTabs \cup {nextTab}
            /\ _tabs' = _tabs + 1
            /\ UNCHANGED <<_tab, _resolvers>>
       ELSE /\ jobTab'[j] = NoTab
            /\ _resolvers' = Append(_resolvers, j)
            /\ UNCHANGED <<_tabs, _tab, browserTabs, nextTab>>

C19_GetTabDecides == [][\A j \in Jobs : C19_GetTabStep(j)]_vars

\* C19 witness: one caller got the bootstrap tab, one a newly created tab,
\* and one was appended to _resolvers.
C19_Witness ==
  /\ \E j \in Jobs : how[j] = "bootstrap"
  /\ \E j \in Jobs : how[j] = "created"
  /\ \E j \in Jobs : pc[j] = "waiting" /\ jobTab[j] = NoTab

\* C20: a releaseTab call made while requests are pending hands the freed
\* capacity within that call to the longest-waiting requester (a newly
\* created tab or the bootstrap tab), and capacity is never in general
\* availability (_tab set, or _tabs < _maxtabs) while a request is queued.
C20_Step ==
  /\ \A j \in Jobs :
       (pc[j] = "holding" /\ pc'[j] = "done" /\ Len(_resolvers) > 0) =>
         /\ _resolvers' = Tail(_resolvers)
         /\ jobTab'[Head(_resolvers)] # NoTab
         /\ how'[Head(_resolvers)] \in {"handedCreated", "handedBootstrap"}
  /\ Len(_resolvers') > 0 => (_tab' = NoTab /\ _tabs' >= _maxtabs')

C20_ReleaseHandsToWaiter == [][C20_Step]_vars


\* C21: in the PageInfoListener-based TabAllocator, whenever _resolvers is
\* non-empty the pool is saturated (_tabs >= _maxtabs): no request waits in
\* the queue while capacity remains unused.
C21_QueuedOnlyWhenSaturated == Len(_resolvers) > 0 => _tabs >= _maxtabs

\* C21 witness: a tab was released and handed to a waiter, and another
\* request is still queued.
C21_Witness ==
  /\ Len(_resolvers) > 0
  /\ \E j \in Jobs : pc[j] = "done"
  /\ \E j \in Jobs : how[j] \in {"handedCreated", "handedBootstrap"}


\* the previous tab of every replacement that is not ready yet (the initial
\* tab for the bootstrap tab, the released last tab for its replacement) is
\* still open
C22_PreviousKept ==
  \A r \in TabIds :
    (r \in browserTabs /\ r \notin tabReady
       /\ onReady[r].kind \in {"removeInitial", "releaseTab"})
      => onReady[r].arg \in browserTabs

\* C22: a previous tab is removed only after its replacement is ready: the
\* initial tab stays until the creation promise of the bootstrap tab has
\* resolved; releaseTab of the last tab (_tabs == 1) does not remove the
\* released tab but creates a replacement, and the released tab stays until
\* the creation promise of the replacement has resolved.
C22_Step ==
  /\ C22_PreviousKept
  /\ C22_PreviousKept'
  /\ \A j \in Jobs :
       (pc[j] = "holding" /\ pc'[j] = "done" /\ _tabs = 1) =>
         /\ jobTab[j] \in browserTabs'
         /\ nextTab \in browserTabs' \ tabReady'
         /\ onReady'[nextTab] = ReleaseReaction(jobTab[j])
  /\ \A t \in browserTabs \ browserTabs' :
       t = InitialTab => 1 \in tabReady'

C22_RemovedAfterReplacementReady == [][C22_Step]_vars

\* C22 witness: the initial tab is gone, a last tab was released, its
\* replacement has become ready and the released tab has been removed.
C22_Witness ==
  /\ InitialTab \notin browserTabs
  /\ \E r \in tabReady :
       /\ onReady[r].kind = "releaseTab"
       /\ onReady[r].arg \notin browserTabs
       /\ \E j \in Jobs : pc[j] = "done" /\ jobTab[j] = onReady[r].arg


\* C23: running is incremented once per url at launch and decremented once
\* per job (one taskDone call per job), whatever the job's outcome and the
\* POST's event; running is never negative.  Stated on states: running is the
\* number of urls minus the number of taskDone calls, no job has two taskDone
\* calls, a job whose POST has fired has one, and no job is left without its
\* taskDone call when the batch can take no further step.
C23_RunningCountsJobs ==
  /\ running >= 0
  /\ phase # "crawling" => running = 0
  /\ phase = "crawling" =>
       running = numUrls - Cardinality({j \in Jobs : taskDones[j] >= 1})
  /\ \A j \in Jobs :
       /\ taskDones[j] <= 1
       /\ j \notin Urls => taskDones[j] = 0
       /\ post[j] = "finished" => taskDones[j] = 1
  /\ Stuck => \A j \in Urls : taskDones[j] = 1


\* C24: a single job's failure never blocks the batch: a crawl_url that threw
\* after acquiring its tab has released the tab and an error record for its
\* url was sent, its taskDone runs with the POST's event, and every other job
\* still acquires a tab, completes and is reported (no job is left behind
\* when the batch can take no further step).
C24_FailureDoesNotBlock ==
  /\ \A j \in Urls :
       pc[j] = "failed" =>
         /\ Releases(j) = 1
         /\ sends[j] = 1
         /\ record[j] = ErrorRecord(j)
         /\ post[j] = "finished" => taskDones[j] = 1
  /\ (Stuck /\ \E j \in Urls : pc[j] = "failed") =>
       \A i \in Urls : Ended(i) /\ sends[i] = 1 /\ taskDones[i] = 1


\* C25: expect(key) called while a registration of the same key is
\* unresolved raises an error instead of replacing the first registration:
\* such a call throws, at most one pending waiter per key exists, and every
\* pending waiter is still the registration of its key.
C25_DoubleExpectRaises ==
  /\ (lastCall.op = "expect" /\ lastCall.hit) => lastCall.threw
  /\ \A k \in Keys :
       Cardinality({r \in RegIds : future[r].state = "pending"
                                     /\ regKey[r] = k}) <= 1
  /\ \A r \in RegIds :
       future[r].state = "pending" => _pageInfoSetters[regKey[r]] = r


\* C26: crawl_urls launches all jobs up front: its launch loop issues the
\* getTab of every url, in url order, before any job has released a tab or
\* reported; afterwards a launched job without a tab is always one the
\* allocator keeps queued at its limit, never one the orchestrator holds back.
C26_Step ==
  /\ (phase = "open" /\ phase' = "crawling") =>
       /\ running' = numUrls
       /\ requests' = [i \in 1..numUrls |-> i]
       /\ \A j \in Jobs : Releases(j) = 0 /\ sends'[j] = 0 /\ trace[j] = <<>>
       /\ \A j \in Jobs : j <= numUrls => trace'[j] = <<"getTab">>
  /\ (phase' = "crawling") =>
       \A j \in Jobs : j <= numUrls' =>
         /\ Head(trace'[j]) = "getTab"
         /\ (pc'[j] = "waiting" /\ jobTab'[j] = NoTab) =>
              /\ \E i \in 1..Len(_resolvers') : _resolvers'[i] = j
              /\ _tabs' >= _maxtabs'

C26_AllLaunchedUpFront == [][C26_Step]_vars

C26_Witness ==
  /\ phase = "crawling"
  /\ numUrls > _maxtabs
  /\ \A j \in Urls : trace[j] = <<"getTab">>
  /\ Len(_resolvers) = numUrls - _maxtabs


\* number of calls of the function `name` (of _go, of the trial, of the catch
\* or of the finally function) made by action a
Called(a, name) ==
  Cardinality({i \in 1..Len(calls[a]) : calls[a][i].fn = name})
\* the action has ended
Over(a) == _state[a] \in {State.Done, State.Exception}

\* C27: a Defer or Delay action only goes from Ready to Running, and that in
\* a go() call, and from Running to Done or to Exception; Done and Exception
\* are never left; go() on a Ready action makes it Running, and _go always
\* finds the state Running.
C27_Step ==
  \A a \in Actions :
    /\ _state'[a] # _state[a] =>
         <<_state[a], _state'[a]>> \in
           {<<State.Ready, State.Running>>, <<State.Running, State.Done>>,
            <<State.Running, State.Exception>>}
    /\ (_state[a] = State.Ready /\ _state'[a] = State.Running) =>
         goCalls' = goCalls + 1 /\ lastGo' = a
    /\ (goCalls' = goCalls + 1 /\ lastGo' = a /\ _state[a] = State.Ready) =>
         /\ _state'[a] = State.Running
         /\ Called(a, "_go")' = Called(a, "_go") + 1
    /\ \A i \in 1..Len(calls'[a]) :
         calls'[a][i].fn = "_go" => calls'[a][i].saw = State.Running

C27_OnlyThreeTransitions == [][C27_Step]_vars

C27_Witness ==
  /\ _state[1] = State.Done
  /\ _state[2] = State.Exception
  /\ Called(1, "_go") = 1
  /\ Called(2, "_go") = 1

\* C28: a go() call on an action that is not Ready throws and changes
\* nothing: _state, finally_f and catch_f keep their values, no call of _go
\* is made and no further _body is scheduled.
C28_Step ==
  \A a \in Actions :
    (goCalls' = goCalls + 1 /\ lastGo' = a /\ _state[a] # State.Ready) =>
      /\ escaped'[a]
      /\ _state'[a] = _state[a]
      /\ finally_f'[a] = finally_f[a]
      /\ catch_f'[a] = catch_f[a]
      /\ try_f'[a] = try_f[a]
      /\ calls'[a] = calls[a]
      /\ dispatched'[a] = dispatched[a]
      /\ delayed'[a] = delayed[a]

C28_GoOnlyWhenReady == [][C28_Step]_vars

C28_Witness ==
  \E a \in Actions :
    /\ goCalls = 2
    /\ lastGo = a
    /\ \A b \in Actions \ {a} : _state[b] = State.Ready
    /\ _state[a] = State.Done
    /\ finally_f[a] = "returns"
    /\ escaped[a]
    /\ Called(a, "_go") = 1
    /\ Called(a, "finally") = 1

\* C29: the state is changed after the trial and before any callback: the
\* trial finds Running; when the trial did not throw, no catch function is
\* called, the finally function finds Done and the state stays Done, also
\* when the finally function throws; when the trial threw, the catch and the
\* finally function both find Exception.
C29_StateSetBeforeCallbacks ==
  \A a \in Actions :
    /\ \A i \in 1..Len(calls[a]) :
         /\ calls[a][i].fn = "try" => calls[a][i].saw = State.Running
         /\ calls[a][i].fn = "catch" =>
              try_f[a] = "throws" /\ calls[a][i].saw = State.Exception
         /\ calls[a][i].fn = "finally" =>
              calls[a][i].saw = (IF try_f[a] = "throws" THEN State.Exception
                                 ELSE State.Done)
    /\ Over(a) =>
         _state[a] = (IF try_f[a] = "throws" THEN State.Exception
                      ELSE State.Done)

C29_Witness ==
  /\ _state[1] = State.Done
  /\ finally_f[1] = "throws"
  /\ escaped[1]
  /\ Called(1, "finally") = 1
  /\ _state[2] = State.Exception
  /\ Called(2, "catch") = 1
  /\ Called(2, "finally") = 1

\* C30: an action started with a finally function calls it exactly once when
\* it ends, on the Done and on the Exception path, also when the catch
\* function throws, and never before it ends; the catch function is called
\* at most once and only on the Exception path.
C30_CallbacksOnce ==
  \A a \in Actions :
    /\ Called(a, "finally") =
         (IF Over(a) /\ finally_f[a] # NoFn THEN 1 ELSE 0)
    /\ Called(a, "catch") <= 1
    /\ Called(a, "catch") = 1 => _state[a] = State.Exception

C30_Witness ==
  \E a \in Actions, b \in Actions :
    /\ _state[a] = State.Exception
    /\ catch_f[a] = "throws"
    /\ Called(a, "catch") = 1
    /\ Called(a, "finally") = 1
    /\ _state[b] = State.Done
    /\ Called(b, "finally") = 1


\* the complete runs of crawl_url, as sequences of its steps: the page info
\* or the timeout arrives, the RequestNotifier constructor throws, loadURI
\* throws; each with shutdown() returning or throwing in the finally block
CrawlOrders ==
  {<<"getTab", "acquired", "RequestNotifier", "expect", "loadURI",
     "pageInfo", "shutdown", "releaseTab">>,
   <<"getTab", "acquired", "RequestNotifier", "expect", "loadURI",
     "pageInfo", "shutdown!">>,
   <<"getTab", "acquired", "RequestNotifier!", "releaseTab">>,
   <<"getTab", "acquired", "RequestNotifier", "expect", "loadURI!",
     "shutdown", "releaseTab">>,
   <<"getTab", "acquired", "RequestNotifier", "expect", "loadURI!",
     "shutdown!">>}
\* the runs of crawl_url that have not ended yet
CrawlPrefixes ==
  UNION {{SubSeq(t, 1, n) : n \in 0..(Len(t) - 1)} : t \in CrawlOrders}

C32_Step ==
  /\ Cardinality((browserTabs \ browserTabs') \ {InitialTab})
       = (nextTab' - nextTab) - (_tabs' - _tabs)
  /\ \A t \in browserTabs \ browserTabs' :
       \A j \in Jobs :
         /\ ~(pc'[j] \in {"waiting", "holding"} /\ jobTab'[j] = t)
         /\ (pc[j] \in {"waiting", "holding"} /\ jobTab[j] = t) =>
              pc[j] = "holding" /\ pc'[j] = "done"
  /\ \A j \in Jobs :
       (pc'[j] \in {"waiting", "holding"} /\ jobTab'[j] # NoTab) =>
         jobTab'[j] \in browserTabs'
  /\ \A t \in TabIds :
       (t \in tabReady' \ tabReady /\ onReady[t].kind = "releaseTab") =>
         /\ onReady[t].arg \in browserTabs
         /\ onReady[t].arg \notin browserTabs'

C32_RemovedOnceNeverHeld == [][C32_Step]_vars

\* C32 witness: a last tab has been removed by the deferred releaseTab, a
\* tab has been removed by a direct releaseTab, and a job holds a tab.
C32_Witness ==
  /\ \E t \in tabReady : /\ onReady[t].kind = "releaseTab"
                          /\ onReady[t].arg \notin browserTabs
  /\ \E i \in Jobs, j \in Jobs :
       /\ pc[i] = "done" /\ pc[j] = "done"
       /\ jobTab[i] # jobTab[j]
       /\ jobTab[i] \notin browserTabs
       /\ jobTab[j] \notin browserTabs
       /\ \A t \in tabReady : onReady[t].arg # jobTab[j]
  /\ \E j \in Jobs : pc[j] = "holding" /\ jobTab[j] \in browserTabs


\* C33: a registration resolved by setPageInfo has its timer cancelled, so
\* no resolved registration has an armed timer and its timer never fires
\* later; a timer that fires belongs to a pending registration and resolves
\* that registration only, never another one of the same key; and it leaves
\* the entries, promises and timers of every other key as they are.
C33_Step ==
  /\ \A r \in RegIds :
       /\ (future[r].state = "pending" /\ future'[r].state = "resolved"
             /\ future'[r].value # TimeoutResult) => r \notin timers'
       /\ future'[r].state = "resolved" => r \notin timers'
  /\ (callNo' = callNo + 1 /\ lastCall'.op = "timeout") =>
       /\ Cardinality(timers \ timers') = 1
       /\ \A k \in Keys \ {lastCall'.key} :
            _pageInfoSetters'[k] = _pageInfoSetters[k]
       /\ \A r \in RegIds :
            /\ regKey[r] # lastCall'.key =>
                 /\ future'[r] = future[r]
                 /\ (r \in timers') = (r \in timers)
            /\ r \in timers \ timers' =>
                 /\ regKey[r] = lastCall'.key
                 /\ future[r].state = "pending"
            /\ future'[r] # future[r] =>
                 /\ r \in timers \ timers'
                 /\ future'[r] = Resolved(TimeoutResult)

C33_ResolvedTimerCancelled == [][C33_Step]_vars

\* C33 witness: a key was registered, resolved by setPageInfo and registered
\* again, and the timer of a registration of another key has fired.
C33_Witness ==
  \E r1 \in RegIds, r2 \in RegIds, r3 \in RegIds :
    /\ r1 < r2
    /\ regKey[r1] = regKey[r2]
    /\ future[r1].state = "resolved" /\ future[r1].value \in Payloads
    /\ future[r2].state = "pending" /\ r2 \in timers
    /\ _pageInfoSetters[regKey[r2]] = r2
    /\ regKey[r3] # regKey[r2]
    /\ future[r3] = Resolved(TimeoutResult)
    /\ lastCall.op = "timeout"


\* no job has a tab (each is before its getTab, queued in _resolvers, or has
\* released its tab) and every creation promise has resolved
Quiescent ==
  /\ \A j \in Jobs : \/ pc[j] \in {"idle", "done"}
                     \/ pc[j] = "waiting" /\ jobTab[j] = NoTab
  /\ browserTabs \ {InitialTab} \subseteq tabReady

\* C34: once every job that acquired a tab has released it and every pending
\* creation has become ready, _resolvers is empty, _tabs is 1, exactly one
\* tab is open in the browser, created by the allocator, and it is the
\* unused tab kept in _tab for the next getTab.
C34_QuiescentPool ==
  Quiescent =>
    /\ _resolvers = <<>>
    /\ _tabs = 1
    /\ Cardinality(browserTabs) = 1
    /\ InitialTab \notin browserTabs
    /\ _tab # NoTab
    /\ browserTabs = {_tab}
    /\ \A j \in Jobs : jobTab[j] # _tab

\* C34 witness: the pool is quiescent after a job that had to wait in
\* _resolvers and a job that took the bootstrap tab have released.
C34_Witness ==
  /\ Quiescent
  /\ \E j \in everQueued : pc[j] = "done"
  /\ \E j \in Jobs : pc[j] = "done" /\ how[j] = "bootstrap"
  /\ \A j \in Jobs : pc[j] = "done"

====
